---- MODULE Spec2Model ----
(***************************************************************************)
(* A model of src/student.py: the StudentDB persistence layer (SQLite      *)
(* schema and statements) and the StudentSystemApp Tkinter front end.      *)
(*                                                                         *)
(* Text is a tuple of one-character strings, so that strip(), LIKE and     *)
(* float() are computed character by character.  A Python float / SQLite   *)
(* REAL is a binary floating-point number rounded to nearest, ties to      *)
(* even; the significand is narrowed from 53 to Prec bits and the smallest *)
(* spacing from 2^-1074 to 2^-FracBits so that the values fit the model    *)
(* checker's integers.                                                     *)
(***************************************************************************)
EXTENDS Integers, Sequences, FiniteSets, TLC

VARIABLES
    db,                       \* StudentDB.conn: the database file's content
    last_call,                \* the StudentDB mutator last called (by the last handler, if it
                              \* called one) and how it ended
    returned,                 \* what the last StudentDB query returned, or None
    term_log,                 \* history: the surviving term rows, in the order they were created
    selected_class,           \* StudentSystemApp.selected_class (StringVar)
    search_text,              \* StudentSystemApp.search_text (StringVar)
    selected_student_row_id,  \* StudentSystemApp.selected_student_row_id
    class_combo,              \* class_combo["values"]
    student_tree,             \* student_tree: the iids of its rows, top to bottom
    student_sel,              \* student_tree.selection()
    term_tree,                \* term_tree: its rows (iid = term name), top to bottom
    term_sel,                 \* term_tree.selection()
    profile,                  \* the four profile labels: the student shown, or None
    stats_label,              \* stats_label: the overall statistics shown, or None
    chart,                    \* the axes: the (label, value) series drawn
    event,                    \* the last event handler that ran
    dialog                    \* the message box that handler showed, or "none"

vars == <<db, last_call, returned, term_log, selected_class, search_text,
          selected_student_row_id, class_combo, student_tree, student_sel,
          term_tree, term_sel, profile, stats_label, chart, event, dialog>>

uivars == <<selected_class, search_text, selected_student_row_id, class_combo,
            student_tree, student_sel, term_tree, term_sel, profile,
            stats_label, chart, event, dialog>>

\* ------------------------------------------------------------------ bounds

\* AUTOINCREMENT values the students / terms tables may hand out.
MaxStudentRows == 2
MaxTermRows == 3
\* Terms the user adds through the window.
MaxTermsAdded == 2
\* Students in a database file that earlier runs filled.
MaxFilled == 3
\* Significand bits and fraction bits of the modelled binary floating point.
Prec == 6
FracBits == 10

\* ------------------------------------------------------------------- text

\* Python's None, and a present value, for nullable fields.
None == << >>
Some(x) == <<x>>

\* The characters of the model, in ASCII order (BINARY collation, memcmp).
Ascii ==
    <<" ", "%", "+", "-", ".", "0", "1", "2", "3", "4", "5", "6", "7", "8", "9",
      "A", "B", "F", "I", "N", "S", "_", "a", "b", "c", "f", "i", "l", "n", "o">>

Ord(c) == CHOOSE i \in 1..Len(Ascii) : Ascii[i] = c

\* ASCII case folding, as SQLite's LIKE and Python's float() apply it.
Lower(c) ==
    CASE c = "A" -> "a" [] c = "B" -> "b" [] c = "F" -> "f" [] c = "I" -> "i"
      [] c = "N" -> "n" [] c = "S" -> "s" [] OTHER -> c

LowerText(s) == [i \in 1..Len(s) |-> Lower(s[i])]

IsSpace(c) == c = " "

RECURSIVE LStrip(_)
LStrip(s) == IF s # << >> /\ IsSpace(Head(s)) THEN LStrip(Tail(s)) ELSE s

RECURSIVE RStrip(_)
RStrip(s) ==
    IF s # << >> /\ IsSpace(s[Len(s)]) THEN RStrip(SubSeq(s, 1, Len(s) - 1)) ELSE s

\* str.strip()
Strip(s) == RStrip(LStrip(s))

\* a < b and a <= b for TEXT under the BINARY collation.
RECURSIVE TextLess(_, _)
TextLess(a, b) ==
    IF b = << >> THEN FALSE
    ELSE IF a = << >> THEN TRUE
    ELSE IF Head(a) = Head(b) THEN TextLess(Tail(a), Tail(b))
    ELSE Ord(Head(a)) < Ord(Head(b))

TextLeq(a, b) == a = b \/ TextLess(a, b)

\* text LIKE pattern: % is any run of characters, _ is any one character,
\* letters compare without case; there is no ESCAPE clause.
RECURSIVE Like(_, _)
Like(text, pattern) ==
    IF pattern = << >> THEN text = << >>
    ELSE IF Head(pattern) = "%"
        THEN Like(text, Tail(pattern)) \/ (text # << >> /\ Like(Tail(text), pattern))
    ELSE /\ text # << >>
         /\ (Head(pattern) = "_" \/ Lower(Head(pattern)) = Lower(Head(text)))
         /\ Like(Tail(text), Tail(pattern))

\* ---------------------------------------------------------- floating point

RECURSIVE Pow2(_)
Pow2(n) == IF n = 0 THEN 1 ELSE 2 * Pow2(n - 1)

\* 1.0 in the model's unit, 2^-FracBits.
One == Pow2(FracBits)

\* p/q rounded to an integer, ties to even (p >= 0, q > 0).
RoundHalfEven(p, q) ==
    LET f == p \div q
        r == p % q
    IN  IF 2 * r < q THEN f
        ELSE IF 2 * r > q THEN f + 1
        ELSE IF f % 2 = 0 THEN f ELSE f + 1

\* The spacing of the floating-point numbers around p/q units.
RECURSIVE Spacing(_, _, _)
Spacing(p, q, s) == IF p < Pow2(Prec) * q * s THEN s ELSE Spacing(p, q, 2 * s)

\* p/q units rounded to the nearest floating-point number.
FRound(p, q) ==
    LET a == IF p < 0 THEN 0 - p ELSE p
        s == Spacing(a, q, 1)
        m == s * RoundHalfEven(a, q * s)
    IN  IF p < 0 THEN 0 - m ELSE m

\* A float: finite (v units), an infinity (v its sign) or NaN.
Fin(v) == [k |-> "fin", v |-> v]
Inf(sign) == [k |-> "inf", v |-> sign]
NaN == [k |-> "nan", v |-> 0]

\* float() raising ValueError, in place of a value.
ValueError == [k |-> "ValueError", v |-> 0]

IsNaN(x) == x.k = "nan"

\* x < y and x > y on floats: every comparison with NaN is false.
FLt(x, y) ==
    /\ ~IsNaN(x) /\ ~IsNaN(y)
    /\ CASE x.k = "fin" /\ y.k = "fin" -> x.v < y.v
         [] x.k = "inf" /\ y.k = "inf" -> x.v < y.v
         [] x.k = "inf" -> x.v < 0
         [] OTHER -> y.v > 0

FGt(x, y) == FLt(y, x)

\* x + y
FAdd(x, y) ==
    CASE IsNaN(x) \/ IsNaN(y) -> NaN
      [] x.k = "inf" /\ y.k = "inf" -> IF x.v = y.v THEN x ELSE NaN
      [] x.k = "inf" -> x
      [] y.k = "inf" -> y
      [] OTHER -> Fin(FRound(x.v + y.v, 1))

\* x / n for a count n > 0
FDivInt(x, n) == IF x.k = "fin" THEN Fin(FRound(x.v, n)) ELSE x

\* sum(xs): Python's left-to-right sum, started from the integer 0.
RECURSIVE FSum(_)
FSum(xs) ==
    IF xs = << >> THEN Fin(0)
    ELSE FAdd(FSum(SubSeq(xs, 1, Len(xs) - 1)), xs[Len(xs)])

IsDigit(c) == c \in {"0", "1", "2", "3", "4", "5", "6", "7", "8", "9"}
DigitVal(c) == Ord(c) - Ord("0")

RECURSIVE DigitsVal(_)
DigitsVal(s) ==
    IF s = << >> THEN 0 ELSE 10 * DigitsVal(SubSeq(s, 1, Len(s) - 1)) + DigitVal(s[Len(s)])

RECURSIVE Pow10(_)
Pow10(n) == IF n = 0 THEN 1 ELSE 10 * Pow10(n - 1)

\* float(s): surrounding whitespace is dropped; then an optional sign and
\* either "nan", "inf" (any case) or decimal digits with at most one point
\* and at least one digit.  Anything else is a ValueError.
ParseFloat(s) ==
    LET t == Strip(s)
        signed == t # << >> /\ Head(t) \in {"+", "-"}
        sign == IF signed /\ Head(t) = "-" THEN 0 - 1 ELSE 1
        body == IF signed THEN Tail(t) ELSE t
        dots == {i \in 1..Len(body) : body[i] = "."}
        digits == SelectSeq(body, IsDigit)
        nfrac == IF dots = {} THEN 0 ELSE Len(body) - (CHOOSE i \in dots : TRUE)
    IN  IF LowerText(body) = <<"n", "a", "n">> THEN NaN
        ELSE IF LowerText(body) = <<"i", "n", "f">> THEN Inf(sign)
        ELSE IF /\ digits # << >>
                /\ Cardinality(dots) <= 1
                /\ \A i \in 1..Len(body) : IsDigit(body[i]) \/ body[i] = "."
            THEN Fin(sign * FRound(DigitsVal(digits) * One, Pow10(nfrac)))
        ELSE ValueError

\* ------------------------------------------------- StudentDB: the schema

\* The two tables, empty, with their AUTOINCREMENT sequences.
EmptyDB == [students |-> {}, terms |-> {}, seq_students |-> 0, seq_terms |-> 0]

\* How a call ends: it returns, or it raises.
Return(d) == [db |-> d, exc |-> "none"]
Raise(d, e) == [db |-> d, exc |-> e]

\* The sqlite3.IntegrityError a refused INSERT raises, by its message.
UniqueStudentId == "IntegrityError: UNIQUE constraint failed: students.student_id"
UniqueTerm == "IntegrityError: UNIQUE constraint failed: terms.student_id, terms.term_name"
NotNullGpa == "IntegrityError: NOT NULL constraint failed: terms.gpa"
ForeignKey == "IntegrityError: FOREIGN KEY constraint failed"
IntegrityError == {UniqueStudentId, UniqueTerm, NotNullGpa, ForeignKey}

\* students.student_id TEXT NOT NULL UNIQUE
StudentIdTaken(d, student_id) == \E s \in d.students : s.student_id = student_id

\* terms: UNIQUE(student_id, term_name)
TermTaken(d, row_id, term_name) ==
    \E t \in d.terms : t.student_id = row_id /\ t.term_name = term_name

\* terms: FOREIGN KEY(student_id) REFERENCES students(id), PRAGMA foreign_keys = ON
OwnerExists(d, row_id) == \E s \in d.students : s.id = row_id

\* ------------------------------------------------ StudentDB: the methods

add_student_unchecked(d, student_id, name, address, class_name) ==
    Return([d EXCEPT !.students = @ \cup {[id |-> d.seq_students + 1,
                                           student_id |-> Strip(student_id),
                                           name |-> Strip(name),
                                           address |-> Strip(address),
                                           class_name |-> Strip(class_name)]},
                     !.seq_students = @ + 1])

add_student(d, student_id, name, address, class_name) ==
    IF StudentIdTaken(d, Strip(student_id))
    THEN Raise(d, UniqueStudentId)
    ELSE Return([d EXCEPT !.students = @ \cup {[id |-> d.seq_students + 1,
                                                student_id |-> Strip(student_id),
                                                name |-> Strip(name),
                                                address |-> Strip(address),
                                                class_name |-> Strip(class_name)]},
                          !.seq_students = @ + 1])

delete_student_strict(d, student_row_id) ==
    IF ~OwnerExists(d, student_row_id) THEN Raise(d, "Error")
    ELSE Return([d EXCEPT !.students = {s \in @ : s.id # student_row_id},
                          !.terms = {t \in @ : t.student_id # student_row_id}])

delete_student_no_cascade(d, student_row_id) ==
    Return([d EXCEPT !.students = {s \in @ : s.id # student_row_id}])

delete_student(d, student_row_id) ==
    Return([d EXCEPT !.students = {s \in @ : s.id # student_row_id},
                     !.terms = {t \in @ : t.student_id # student_row_id}])

\* The rows of S ordered by name; rows of equal name come in any order.
RECURSIVE OrderByName(_)
OrderByName(S) ==
    IF S = {} THEN {<< >>}
    ELSE UNION {{<<m>> \o r : r \in OrderByName(S \ {m})} :
                m \in {x \in S : \A y \in S : TextLeq(x.name, y.name)}}

\* The rows of S ordered by id (ids are distinct).
RECURSIVE OrderById(_)
OrderById(S) ==
    IF S = {} THEN << >>
    ELSE LET m == CHOOSE x \in S : \A y \in S : x.id <= y.id
         IN  <<m>> \o OrderById(S \ {m})

\* The texts of S in ascending order.
RECURSIVE OrderTexts(_)
OrderTexts(S) ==
    IF S = {} THEN << >>
    ELSE LET m == CHOOSE x \in S : \A y \in S : TextLeq(x, y)
         IN  <<m>> \o OrderTexts(S \ {m})

list_classes(d) == OrderTexts({s.class_name : s \in d.students})

\* The results the query may give: one per admissible order of equal names.
list_students_by_class(d, class_name) ==
    OrderByName({s \in d.students : s.class_name = class_name})

search_students_by_class_like(d, class_name, q) ==
    LET like == <<"%">> \o Strip(q) \o <<"%">>
    IN  OrderByName({s \in d.students :
                        /\ s.class_name = class_name
                        /\ (Like(s.name, like) \/ Like(s.student_id, like))})

\* fetchone(): the row, or None
get_student(d, student_row_id) ==
    IF OwnerExists(d, student_row_id)
    THEN Some(CHOOSE s \in d.students : s.id = student_row_id)
    ELSE None

add_term_grade_unchecked(d, student_row_id, term_name, gpa) ==
    IF IsNaN(gpa) THEN Raise(d, NotNullGpa)
    ELSE IF ~OwnerExists(d, student_row_id) THEN Raise(d, ForeignKey)
    ELSE Return([d EXCEPT !.terms = @ \cup {[id |-> d.seq_terms + 1,
                                             student_id |-> student_row_id,
                                             term_name |-> Strip(term_name),
                                             gpa |-> gpa]},
                          !.seq_terms = @ + 1])

\* A NaN is bound as NULL, which gpa REAL NOT NULL refuses.
add_term_grade(d, student_row_id, term_name, gpa) ==
    IF IsNaN(gpa) THEN Raise(d, NotNullGpa)
    ELSE IF TermTaken(d, student_row_id, Strip(term_name)) THEN Raise(d, UniqueTerm)
    ELSE IF ~OwnerExists(d, student_row_id) THEN Raise(d, ForeignKey)
    ELSE Return([d EXCEPT !.terms = @ \cup {[id |-> d.seq_terms + 1,
                                             student_id |-> student_row_id,
                                             term_name |-> Strip(term_name),
                                             gpa |-> gpa]},
                          !.seq_terms = @ + 1])

TermRow(t) == <<t.term_name, t.gpa>>

list_terms_for_student_newest_first(d, student_row_id) ==
    LET rows == OrderById({t \in d.terms : t.student_id = student_row_id})
    IN  [i \in 1..Len(rows) |-> TermRow(rows[Len(rows) + 1 - i])]

list_terms_for_student(d, student_row_id) ==
    LET rows == OrderById({t \in d.terms : t.student_id = student_row_id})
    IN  [i \in 1..Len(rows) |-> TermRow(rows[i])]

delete_term(d, student_row_id, term_name) ==
    Return([d EXCEPT !.terms = {t \in @ : ~(t.student_id = student_row_id
                                            /\ t.term_name = term_name)}])

\* AVG(t.gpa), COUNT(t.id) of one student's group of the LEFT JOIN.
StatsRow(d, s) ==
    LET mine == OrderById({t \in d.terms : t.student_id = s.id})
        gpas == [i \in 1..Len(mine) |-> mine[i].gpa]
    IN  [id |-> s.id, name |-> s.name,
         avg_gpa |-> IF gpas = << >> THEN None
                     ELSE Some(FDivInt(FSum(gpas), Len(gpas))),
         term_count |-> Len(gpas)]

\* min(xs), max(xs) of a non-empty list of floats
FMin(xs) == CHOOSE x \in {xs[i] : i \in 1..Len(xs)} : \A i \in 1..Len(xs) : ~FLt(xs[i], x)
FMax(xs) == CHOOSE x \in {xs[i] : i \in 1..Len(xs)} : \A i \in 1..Len(xs) : ~FGt(xs[i], x)

Overall_over_all_rows(rows) ==
    LET have == SelectSeq(rows, LAMBDA r : r.avg_gpa # None)
        gpas == [i \in 1..Len(have) |-> have[i].avg_gpa[1]]
    IN  [count_students |-> Len(rows),
         count_with_terms |-> Len(gpas),
         avg_gpa |-> IF gpas # << >> THEN Some(FDivInt(FSum(gpas), Len(rows))) ELSE None,
         min_gpa |-> IF gpas # << >> THEN Some(FMin(gpas)) ELSE None,
         max_gpa |-> IF gpas # << >> THEN Some(FMax(gpas)) ELSE None]

\* The dict "overall" computed from the fetched rows.
Overall(rows) ==
    LET have == SelectSeq(rows, LAMBDA r : r.avg_gpa # None)
        gpas == [i \in 1..Len(have) |-> have[i].avg_gpa[1]]
    IN  [count_students |-> Len(rows),
         count_with_terms |-> Len(gpas),
         avg_gpa |-> IF gpas # << >> THEN Some(FDivInt(FSum(gpas), Len(gpas))) ELSE None,
         min_gpa |-> IF gpas # << >> THEN Some(FMin(gpas)) ELSE None,
         max_gpa |-> IF gpas # << >> THEN Some(FMax(gpas)) ELSE None]

\* The results class_stats may give: one per admissible order of equal names.
class_stats(d, class_name) ==
    {LET rows == [i \in 1..Len(ss) |-> StatsRow(d, ss[i])]
     IN  [rows |-> rows, overall |-> Overall(rows)] :
     ss \in OrderByName({s \in d.students : s.class_name = class_name})}

\* ------------------------------------------------------------- the inputs

\* What a caller or the user may type.
StudentIdInputs == {<<"S", "1">>, <<" ", "S", "1">>, <<"S", "2">>}
NameInputs == {<<"B", "o", "b">>, <<"A", "l">>}
AddressInputs == {<< >>}
ClassInputs == {<<"A">>, <<"B">>}
TermNameInputs == {<<"S">>, <<"F">>, <<"F", " ">>}
QueryInputs == {<< >>, <<"b">>, <<"S", "1">>, <<"_">>, <<"%">>, <<" ">>}
RowIdInputs == 1..MaxStudentRows
\* The gpa arguments given to the store directly: 3.1, 4.0 and NaN.
GpaValues == {ParseFloat(<<"3", ".", "1">>), ParseFloat(<<"4", ".", "0">>), NaN}

\* ------------------------------------------------------------------ Init

NoCall == [op |-> "none", exc |-> "none"]

\* StudentSystemApp.__init__ on a new database file.
Init ==
    /\ db = EmptyDB
    /\ last_call = NoCall
    /\ returned = None
    /\ term_log = << >>
    /\ selected_class = << >>
    /\ search_text = << >>
    /\ selected_student_row_id = None
    /\ class_combo = << >>
    /\ student_tree = << >>
    /\ student_sel = << >>
    /\ term_tree = << >>
    /\ term_sel = << >>
    /\ profile = None
    /\ stats_label = None
    /\ chart = [x_labels |-> << >>, y_vals |-> << >>, avg |-> None]
    /\ event = "__init__"
    /\ dialog = "none"

\* The history after add_term_grade returned r: a created row goes last.
Logged(log, r, student_row_id, term_name, gpa) ==
    IF r.exc = "none"
    THEN Append(log, [student_id |-> student_row_id, term_name |-> Strip(term_name),
                      gpa |-> gpa])
    ELSE log

\* The history after delete_term: the row of that student and name is gone.
Unlogged(log, student_row_id, term_name) ==
    SelectSeq(log, LAMBDA e : ~(e.student_id = student_row_id /\ e.term_name = term_name))

\* The history after delete_student: the student's rows are gone.
UnloggedStudent(log, student_row_id) ==
    SelectSeq(log, LAMBDA e : e.student_id # student_row_id)

\* ------------------------------------------- the store, called directly

DbAddStudent(student_id, name, address, class_name) ==
    LET r == add_student(db, student_id, name, address, class_name)
    IN  /\ r.db.seq_students <= MaxStudentRows
        /\ db' = r.db
        /\ last_call' = [op |-> "add_student", exc |-> r.exc]
        /\ UNCHANGED <<returned, term_log, uivars>>

DbDeleteStudent(student_row_id) ==
    LET r == delete_student(db, student_row_id)
    IN  /\ db' = r.db
        /\ last_call' = [op |-> "delete_student", exc |-> r.exc]
        /\ term_log' = UnloggedStudent(term_log, student_row_id)
        /\ UNCHANGED <<returned, uivars>>

DbAddTermGrade(student_row_id, term_name, gpa) ==
    LET r == add_term_grade(db, student_row_id, term_name, gpa)
    IN  /\ r.db.seq_terms <= MaxTermRows
        /\ db' = r.db
        /\ last_call' = [op |-> "add_term_grade", exc |-> r.exc]
        /\ term_log' = Logged(term_log, r, student_row_id, term_name, gpa)
        /\ UNCHANGED <<returned, uivars>>

DbDeleteTerm(student_row_id, term_name) ==
    LET r == delete_term(db, student_row_id, term_name)
    IN  /\ db' = r.db
        /\ last_call' = [op |-> "delete_term", exc |-> r.exc]
        /\ term_log' = Unlogged(term_log, student_row_id, term_name)
        /\ UNCHANGED <<returned, uivars>>

NextDB ==
    \/ \E student_id \in StudentIdInputs :
            DbAddStudent(student_id, <<"A", "l">>, << >>, <<"A">>)
    \/ \E student_row_id \in RowIdInputs : DbDeleteStudent(student_row_id)
    \/ \E student_row_id \in RowIdInputs, term_name \in TermNameInputs, gpa \in GpaValues :
            DbAddTermGrade(student_row_id, term_name, gpa)
    \/ \E student_row_id \in RowIdInputs, term_name \in TermNameInputs :
            DbDeleteTerm(student_row_id, term_name)

\* StudentDB driven by arbitrary callers: the rows and their constraints.
SpecDB == Init /\ [][NextDB]_vars

\* search_students_by_class_like called for what it returns.
DbSearch(class_name, q) ==
    /\ \E rows \in search_students_by_class_like(db, class_name, q) :
            returned' = Some([op |-> "search_students_by_class_like", rows |-> rows])
    /\ UNCHANGED <<db, last_call, term_log, uivars>>

NextSearch ==
    \/ \E student_id \in StudentIdInputs, name \in NameInputs, class_name \in ClassInputs :
            DbAddStudent(student_id, name, << >>, class_name)
    \/ \E student_row_id \in RowIdInputs : DbDeleteStudent(student_row_id)
    \/ \E class_name \in ClassInputs, q \in QueryInputs : DbSearch(class_name, q)

\* StudentDB driven by arbitrary callers: the students the listings read.
SpecSearch == Init /\ [][NextSearch]_vars

\* A database file as earlier calls left it: student i was added to a class
\* (every other student under the same name) and then given term grades, one
\* after the other.
GpaLists ==
    LET g == GpaValues \ {NaN}
    IN  {<< >>} \cup {<<x>> : x \in g}
            \cup {l \in {<<x, y>> : x \in g, y \in g} : FLt(l[1], l[2])}

StudentPlans ==
    [class_name : {<<"A">>}, gpas : GpaLists]
        \cup [class_name : {<<"B">>}, gpas : {<<ParseFloat(<<"4", ".", "0">>)>>}]

DigitChar(i) == Ascii[Ord("0") + i]

RECURSIVE WithTerms(_, _, _)
WithTerms(d, student_row_id, gpas) ==
    IF gpas = << >> THEN d
    ELSE LET n == Len(gpas)
             before == WithTerms(d, student_row_id, SubSeq(gpas, 1, n - 1))
         IN  add_term_grade(before, student_row_id, <<<<"F">>, <<"S">>>>[n], gpas[n]).db

RECURSIVE Filled(_)
Filled(plans) ==
    IF plans = << >> THEN EmptyDB
    ELSE LET n == Len(plans)
             before == Filled(SubSeq(plans, 1, n - 1))
             name == <<<<"A", "l">>, <<"B", "o", "b">>>>[(n % 2) + 1]
             added == add_student(before, <<"S", DigitChar(n)>>, name, << >>,
                                  plans[n].class_name).db
         IN  WithTerms(added, n, plans[n].gpas)

FilledStores ==
    {Filled(plans) : plans \in UNION {[1..n -> StudentPlans] : n \in 0..MaxFilled}}

\* The history of a store that was only added to.
TermHistory(d) ==
    LET rows == OrderById(d.terms)
    IN  [i \in 1..Len(rows) |-> [student_id |-> rows[i].student_id,
                                 term_name |-> rows[i].term_name, gpa |-> rows[i].gpa]]

\* StudentDB.__init__ on a database file that earlier runs filled.
InitStats ==
    /\ db \in FilledStores
    /\ last_call = NoCall
    /\ returned = None
    /\ term_log = TermHistory(db)
    /\ selected_class = << >>
    /\ search_text = << >>
    /\ selected_student_row_id = None
    /\ class_combo = << >>
    /\ student_tree = << >>
    /\ student_sel = << >>
    /\ term_tree = << >>
    /\ term_sel = << >>
    /\ profile = None
    /\ stats_label = None
    /\ chart = [x_labels |-> << >>, y_vals |-> << >>, avg |-> None]
    /\ event = "__init__"
    /\ dialog = "none"

\* class_stats called for what it returns.
DbClassStats(class_name) ==
    /\ \E r \in class_stats(db, class_name) :
            returned' = Some([op |-> "class_stats", class_name |-> class_name,
                              rows |-> r.rows, overall |-> r.overall])
    /\ UNCHANGED <<db, last_call, term_log, uivars>>

NextStats == \E class_name \in ClassInputs : DbClassStats(class_name)

\* class_stats read from the stores that earlier calls can have left.
SpecStats == InitStats /\ [][NextStats]_vars

\* --------------------------------------------------- StudentSystemApp

\* The message boxes.
SelectStudentToDelete == "Delete: Please select a student to delete."
StudentRequired == "Validation: Student ID, Name, and Class are required."
DuplicateStudent == "Duplicate: Student ID already exists. Please use a unique Student ID."
AddTermSelectFirst == "Add Term: Select a student first."
TermRequired == "Validation: Term and GPA are required."
GpaOutOfRange == "Validation: GPA must be between 0.0 and 4.0."
GpaNotANumber == "Validation: GPA must be a number (e.g., 3.50)."
DuplicateTerm == "Duplicate: That term already exists for this student. Use a different term name."
DeleteTermSelectFirst == "Delete Term: Select a student first."
SelectTermToDelete == "Delete Term: Select a term to delete."
ConfirmDeleteStudent == "Confirm Delete: Delete student? This also deletes all term grades."
ConfirmDeleteTerm == "Confirm: Delete term?"

\* What the user may type into the forms and the search box.
\* Fillings of the Add Student form: student ID, name, address, class.
FormStudentInputs ==
    {<<<<"S", "1">>, <<"B", "o", "b">>, << >>, <<"A">>>>,
     <<<<"S", "2">>, <<"A", "l">>, << >>, <<"A", " ">>>>,
     <<<<"S", "2">>, <<"A", "l">>, << >>, <<"B">>>>,
     <<<<" ">>, <<"A", "l">>, << >>, <<"B">>>>}
\* Fillings of the term entries: term name, GPA.
FormTermInputs ==
    {<<<<"S">>, <<"4", ".", "0">>>>,
     <<<<"F", " ">>, <<"0", ".", "0">>>>,
     <<<<"S">>, <<"-", "0", ".", "1">>>>,
     <<<<"F">>, <<"4", ".", "1">>>>,
     <<<<"S">>, <<"n", "a", "n">>>>,
     <<<<"F">>, <<"a", "b", "c">>>>,
     <<<<"S">>, << >>>>}
SearchInputs == {<< >>, <<"b">>}

\* f"{x:.2f}": x in hundredths, rounded to nearest, ties to even.
Format2f(x) ==
    IF x.v < 0 THEN 0 - RoundHalfEven((0 - x.v) * 100, One)
    ELSE RoundHalfEven(x.v * 100, One)

\* The application and its store, as one value the handlers transform.
App ==
    [db |-> db, last_call |-> last_call, term_log |-> term_log,
     selected_class |-> selected_class, search_text |-> search_text,
     selected_student_row_id |-> selected_student_row_id,
     class_combo |-> class_combo, student_tree |-> student_tree,
     student_sel |-> student_sel, term_tree |-> term_tree, term_sel |-> term_sel,
     profile |-> profile, stats_label |-> stats_label, chart |-> chart,
     dialog |-> dialog]

\* An event arrives: no message box is up and the handler has called nothing.
Arrived == [App EXCEPT !.dialog = "none", !.last_call = NoCall]

\* The handler named ev has returned, leaving a.
Became(a, ev) ==
    /\ db' = a.db
    /\ last_call' = a.last_call
    /\ term_log' = a.term_log
    /\ selected_class' = a.selected_class
    /\ search_text' = a.search_text
    /\ selected_student_row_id' = a.selected_student_row_id
    /\ class_combo' = a.class_combo
    /\ student_tree' = a.student_tree
    /\ student_sel' = a.student_sel
    /\ term_tree' = a.term_tree
    /\ term_sel' = a.term_sel
    /\ profile' = a.profile
    /\ stats_label' = a.stats_label
    /\ chart' = a.chart
    /\ dialog' = a.dialog
    /\ event' = ev
    /\ UNCHANGED returned

\* self.db.<op>(...) with result r
Called(a, op, r) == [a EXCEPT !.db = r.db, !.last_call = [op |-> op, exc |-> r.exc]]

EmptyChart == [x_labels |-> << >>, y_vals |-> << >>, avg |-> None]

_plot_empty(a) == [a EXCEPT !.chart = EmptyChart]

_plot_student(a, student_row_id) ==
    LET terms == list_terms_for_student(a.db, student_row_id)
        y_vals == [i \in 1..Len(terms) |-> terms[i][2]]
    IN  IF terms = << >> THEN [a EXCEPT !.chart = EmptyChart]
        ELSE [a EXCEPT !.chart = [x_labels |-> [i \in 1..Len(terms) |-> terms[i][1]],
                                  y_vals |-> y_vals,
                                  avg |-> Some(FDivInt(FSum(y_vals), Len(y_vals)))]]

\* The text of stats_label, by its parts.
StatsText(class_name, overall) ==
    [class_name |-> class_name,
     count_students |-> overall.count_students,
     grades |-> IF overall.avg_gpa = None THEN None
                ELSE Some([count_with_terms |-> overall.count_with_terms,
                           avg |-> Format2f(overall.avg_gpa[1]),
                           min |-> Format2f(overall.min_gpa[1]),
                           max |-> Format2f(overall.max_gpa[1])])]

\* The handlers below give the set of states they may leave: the queries
\* leave the order of students of equal name open.
_refresh_class_stats(a) ==
    LET class_name == Strip(a.selected_class)
    IN  IF class_name = << >> THEN {a}
        ELSE {[a EXCEPT !.stats_label = Some(StatsText(class_name, r.overall))] :
              r \in class_stats(a.db, class_name)}

_refresh_classes(a) == [a EXCEPT !.class_combo = list_classes(a.db)]

\* The rows inserted into student_tree; the iid str(row_id) is read back with
\* int(), which gives row_id again.
StudentTreeRows(rows) ==
    [i \in 1..Len(rows) |->
        [iid |-> rows[i].id, student_id |-> rows[i].student_id, name |-> rows[i].name]]

_refresh_students(a) ==
    LET class_name == Strip(a.selected_class)
        q == Strip(a.search_text)
        results == IF q # << >>
                   THEN search_students_by_class_like(a.db, class_name, q)
                   ELSE list_students_by_class(a.db, class_name)
    IN  IF class_name = << >> THEN {a}
        ELSE UNION {_refresh_class_stats([a EXCEPT !.student_tree = StudentTreeRows(rows),
                                                   !.student_sel = << >>]) :
                    rows \in results}

_refresh_terms(a, student_row_id) ==
    LET terms == list_terms_for_student(a.db, student_row_id)
    IN  [a EXCEPT !.term_tree = [i \in 1..Len(terms) |->
                                    [iid |-> terms[i][1], term |-> terms[i][1],
                                     gpa |-> Format2f(terms[i][2])]],
                  !.term_sel = << >>]

_load_student_details(a, student_row_id) ==
    LET st == get_student(a.db, student_row_id)
    IN  IF st = None THEN a
        ELSE LET shown == [a EXCEPT !.profile =
                            Some([student_id |-> st[1].student_id,
                                  name |-> st[1].name,
                                  address |-> IF st[1].address = << >> THEN <<"-">>
                                              ELSE st[1].address,
                                  class_name |-> st[1].class_name])]
             IN  _plot_student(_refresh_terms(shown, student_row_id), student_row_id)

_clear_student_details(a) ==
    _plot_empty([a EXCEPT !.selected_student_row_id = None,
                          !.profile = None,
                          !.term_tree = << >>,
                          !.term_sel = << >>])

_on_student_select(a) ==
    IF a.student_sel = << >> THEN a
    ELSE LET row_id == a.student_sel[1]
         IN  _load_student_details([a EXCEPT !.selected_student_row_id = Some(row_id)],
                                   row_id)

_refresh_all(a) ==
    UNION {{_clear_student_details(c) : c \in _refresh_class_stats(b)} :
           b \in _refresh_students(_refresh_classes(a))}

_clear_search(a) == _refresh_students([a EXCEPT !.search_text = << >>])

\* The "Add" button of the Add Student form.
on_add(a, sid_var, name_var, addr_var, class_var) ==
    LET sid == Strip(sid_var)
        nm == Strip(name_var)
        cl == Strip(class_var)
        ad == Strip(addr_var)
        r == add_student(a.db, sid, nm, ad, cl)
        called == Called(a, "add_student", r)
    IN  IF sid = << >> \/ nm = << >> \/ cl = << >>
            THEN {[a EXCEPT !.dialog = StudentRequired]}
        ELSE IF r.exc \in IntegrityError
            THEN {[called EXCEPT !.dialog = DuplicateStudent]}
        ELSE _refresh_students([_refresh_classes(called) EXCEPT !.selected_class = cl])

_delete_selected_student(a, yes) ==
    LET row_id == a.student_sel[1]
        st == get_student(a.db, row_id)
        called == [Called(a, "delete_student", delete_student(a.db, row_id)) EXCEPT
                        !.term_log = UnloggedStudent(a.term_log, row_id)]
    IN  IF a.student_sel = << >> THEN {[a EXCEPT !.dialog = SelectStudentToDelete]}
        ELSE IF st = None THEN {a}
        ELSE IF ~yes THEN {[a EXCEPT !.dialog = ConfirmDeleteStudent]}
        ELSE {_clear_student_details(b) :
              b \in _refresh_students([called EXCEPT !.dialog = ConfirmDeleteStudent])}

_add_term(a, term_name_var, term_gpa_var) ==
    LET term_name == Strip(term_name_var)
        gpa_str == Strip(term_gpa_var)
        gpa == ParseFloat(gpa_str)
        row_id == a.selected_student_row_id[1]
        r == add_term_grade(a.db, row_id, term_name, gpa)
        called == [Called(a, "add_term_grade", r) EXCEPT
                        !.term_log = Logged(a.term_log, r, row_id, term_name, gpa)]
    IN  IF a.selected_student_row_id = None
            THEN {[a EXCEPT !.dialog = AddTermSelectFirst]}
        ELSE IF term_name = << >> \/ gpa_str = << >>
            THEN {[a EXCEPT !.dialog = TermRequired]}
        ELSE IF gpa = ValueError
            THEN {[a EXCEPT !.dialog = GpaNotANumber]}
        ELSE IF FLt(gpa, Fin(0)) \/ FGt(gpa, Fin(4 * One))
            THEN {[a EXCEPT !.dialog = GpaOutOfRange]}
        ELSE IF r.exc \in IntegrityError
            THEN {[called EXCEPT !.dialog = DuplicateTerm]}
        ELSE _refresh_class_stats(_plot_student(_refresh_terms(called, row_id), row_id))

_delete_selected_term(a, yes) ==
    LET row_id == a.selected_student_row_id[1]
        term_name == a.term_sel[1]
        called == [Called(a, "delete_term", delete_term(a.db, row_id, term_name)) EXCEPT
                        !.term_log = Unlogged(a.term_log, row_id, term_name)]
    IN  IF a.selected_student_row_id = None
            THEN {[a EXCEPT !.dialog = DeleteTermSelectFirst]}
        ELSE IF a.term_sel = << >>
            THEN {[a EXCEPT !.dialog = SelectTermToDelete]}
        ELSE IF ~yes THEN {[a EXCEPT !.dialog = ConfirmDeleteTerm]}
        ELSE _refresh_class_stats(
                _plot_student(_refresh_terms([called EXCEPT !.dialog = ConfirmDeleteTerm],
                                             row_id), row_id))

\* ------------------------------------------------------- the user's events

\* <<ComboboxSelected>>: the user picks one of the combobox's values.
SelectClass(i) ==
    \E a \in _refresh_students([Arrived EXCEPT !.selected_class = class_combo[i]]) :
        Became(a, "<<ComboboxSelected>>")

\* <KeyRelease> in the search box, which now holds text.
TypeSearch(text) ==
    \E a \in _refresh_students([Arrived EXCEPT !.search_text = text]) :
        Became(a, "<KeyRelease>")

ClearSearch == \E a \in _clear_search(Arrived) : Became(a, "_clear_search")

\* <<TreeviewSelect>>: the user clicks row i of the student list.
ClickStudent(i) ==
    Became(_on_student_select([Arrived EXCEPT !.student_sel = <<student_tree[i].iid>>]),
           "<<TreeviewSelect>>")

\* The user clicks row i of the term list; no handler is bound to it.
ClickTerm(i) ==
    /\ term_sel' = <<term_tree[i].iid>>
    /\ UNCHANGED <<db, last_call, returned, term_log, selected_class, search_text,
                   selected_student_row_id, class_combo, student_tree, student_sel,
                   term_tree, profile, stats_label, chart, event, dialog>>

AddStudent(sid_var, name_var, addr_var, class_var) ==
    \E a \in on_add(Arrived, sid_var, name_var, addr_var, class_var) :
        /\ a.db.seq_students <= MaxStudentRows
        /\ Became(a, "on_add")

DeleteStudent(yes) ==
    \E a \in _delete_selected_student(Arrived, yes) : Became(a, "_delete_selected_student")

AddTerm(term_name_var, term_gpa_var) ==
    \E a \in _add_term(Arrived, term_name_var, term_gpa_var) :
        /\ a.db.seq_terms <= MaxTermsAdded
        /\ Became(a, "_add_term")

DeleteTerm(yes) ==
    \E a \in _delete_selected_term(Arrived, yes) : Became(a, "_delete_selected_term")

Refresh == \E a \in _refresh_all(Arrived) : Became(a, "_refresh_all")

Next ==
    \/ \E i \in 1..Len(class_combo) : SelectClass(i)
    \/ \E text \in SearchInputs : TypeSearch(text)
    \/ ClearSearch
    \/ \E i \in 1..Len(student_tree) : ClickStudent(i)
    \/ \E i \in 1..Len(term_tree) : ClickTerm(i)
    \/ \E form \in FormStudentInputs : AddStudent(form[1], form[2], form[3], form[4])
    \/ \E yes \in BOOLEAN : DeleteStudent(yes)
    \/ \E form \in FormTermInputs : AddTerm(form[1], form[2])
    \/ \E yes \in BOOLEAN : DeleteTerm(yes)
    \/ Refresh

\* The application, driven by its user.
Spec == Init /\ [][Next]_vars

\* --------------------------------------------------- the store's contract

\* No two stored students share an external id.
StudentIdUnique ==
    \A s \in db.students, t \in db.students : s.student_id = t.student_id => s = t

\* C1: in every store state, add_student with a student_id that, once
\* trimmed, is the external id of a stored student raises the UNIQUE
\* IntegrityError (DuplicateKey) and leaves the students and the term records
\* as they were; no two stored students ever share an external id.
C1_DuplicateStudentId ==
    /\ StudentIdUnique
    /\ \A student_id \in StudentIdInputs, name \in NameInputs,
          address \in AddressInputs, class_name \in ClassInputs :
            StudentIdTaken(db, Strip(student_id))
            => LET r == add_student(db, student_id, name, address, class_name)
               IN  /\ r.exc = UniqueStudentId
                   /\ r.db.students = db.students
                   /\ r.db.terms = db.terms
                   /\ Cardinality(r.db.students) = Cardinality(db.students)

\* A duplicate add_student was refused while two students were stored.
C1_Witness ==
    /\ last_call = [op |-> "add_student", exc |-> UniqueStudentId]
    /\ Cardinality(db.students) = 2

\* Every term record is owned by a student that exists.
TermsOwned == \A t \in db.terms : \E s \in db.students : s.id = t.student_id

\* The ids of the rows of a listing.
RowIds(rows) == {rows[i].id : i \in 1..Len(rows)}

\* C2: every stored term record is owned by a stored student; right after
\* delete_student(s), s is in no class listing, list_terms_for_student(s) is
\* empty and every other student's term records are unchanged.
C2_DeleteStudentCascades ==
    /\ TermsOwned
    /\ \A s \in RowIdInputs :
        LET after == delete_student(db, s).db
        IN  /\ \A c \in ClassInputs : \A rows \in list_students_by_class(after, c) :
                    s \notin RowIds(rows)
            /\ list_terms_for_student(after, s) = << >>
            /\ \A o \in RowIdInputs \ {s} :
                    list_terms_for_student(after, o) = list_terms_for_student(db, o)

\* A student was deleted and its term records went with it, while another
\* student's term record is still stored.
C2_Witness ==
    /\ last_call.op = "delete_student"
    /\ Cardinality(db.students) < db.seq_students
    /\ db.seq_terms = 2
    /\ \E t \in db.terms : t.id = 1 /\ db.terms = {t}

\* No student has two term records of the same name.
TermUnique ==
    \A t \in db.terms, u \in db.terms :
        (t.student_id = u.student_id /\ t.term_name = u.term_name) => t = u

\* C3: in every store state, add_term_grade(s, n, g), when s already has a
\* term record named n (after trimming), raises an IntegrityError
\* (DuplicateKey) for every g, the UNIQUE one for every g that is a number,
\* and leaves the rows as they were, so that s keeps one record named n with
\* the GPA of the first insertion; (student, term_name) is unique in every
\* state.
C3_DuplicateTerm ==
    /\ TermUnique
    /\ \A s \in RowIdInputs, n \in TermNameInputs, g \in GpaValues :
        TermTaken(db, s, Strip(n))
        => LET r == add_term_grade(db, s, n, g)
               named(d) == {t \in d.terms : t.student_id = s /\ t.term_name = Strip(n)}
           IN  /\ r.exc \in IntegrityError
               /\ ~IsNaN(g) => r.exc = UniqueTerm
               /\ Cardinality(named(r.db)) = 1
               /\ named(r.db) = named(db)

\* A second term record of the same name was refused.
C3_Witness ==
    /\ last_call = [op |-> "add_term_grade", exc |-> UniqueTerm]
    /\ db.terms # {}

\* C9: in every store state, delete_student(r) for a row id that is not
\* stored, and delete_term(r, n) for a pair that matches no term record,
\* return without raising and leave students and term records unchanged; a
\* delete applied a second time gives what applying it once gave.
C9_DeleteIsIdempotent ==
    /\ \A r \in RowIdInputs :
        LET once == delete_student(db, r)
        IN  /\ once.exc = "none"
            /\ ~OwnerExists(db, r) => once.db = db
            /\ delete_student(once.db, r) = once
    /\ \A r \in RowIdInputs, n \in TermNameInputs :
        LET once == delete_term(db, r, n)
        IN  /\ once.exc = "none"
            /\ ~TermTaken(db, r, n) => once.db = db
            /\ delete_term(once.db, r, n) = once

\* A delete has run that found nothing to delete: every row ever inserted is
\* still stored, and there are students and term records.
C9_Witness ==
    /\ last_call.op \in {"delete_student", "delete_term"}
    /\ db.seq_students = Cardinality(db.students)
    /\ db.seq_terms = Cardinality(db.terms)
    /\ db.terms # {}

\* text contains q as a literal substring, letters compared without case.
Contains(text, q) ==
    \E i \in 0..(Len(text) - Len(q)) :
        \A j \in 1..Len(q) : Lower(text[i + j]) = Lower(q[j])

\* rows is in ascending order of name.
SortedByName(rows) ==
    \A i \in 1..Len(rows), j \in 1..Len(rows) : i < j => TextLeq(rows[i].name, rows[j].name)

RowSet(rows) == {rows[i] : i \in 1..Len(rows)}

\* C7: search_students_by_class(c, q) returns exactly the students of class
\* c whose name or external id contains q as a literal, case-insensitive
\* substring, '%' and '_' included, ordered by name; for the empty query it
\* returns what list_students_by_class(c) returns.
C7_SearchIsLiteralSubstring ==
    \A c \in ClassInputs, q \in QueryInputs :
        /\ \A rows \in search_students_by_class_like(db, c, q) :
            /\ SortedByName(rows)
            /\ Len(rows) = Cardinality(RowSet(rows))
            /\ RowSet(rows) = {s \in db.students :
                                /\ s.class_name = c
                                /\ (Contains(s.name, q) \/ Contains(s.student_id, q))}
        /\ q = << >> =>
            search_students_by_class_like(db, c, q) = list_students_by_class(db, c)

\* The exact sum, and the sum of the magnitudes, of finite floats (in units).
RECURSIVE SumUnits(_)
SumUnits(xs) == IF xs = << >> THEN 0 ELSE xs[1].v + SumUnits(Tail(xs))

RECURSIVE SumMagnitudes(_)
SumMagnitudes(xs) ==
    IF xs = << >> THEN 0
    ELSE (IF xs[1].v < 0 THEN 0 - xs[1].v ELSE xs[1].v) + SumMagnitudes(Tail(xs))

\* avg is the mean of xs up to the rounding of Len(xs) floating-point
\* operations: |n*avg - sum| <= gamma * sum|x|, gamma = n*u / (1 - n*u),
\* u = 2^-Prec.
NearMean(avg, xs) ==
    LET n == Len(xs)
        d == n * avg.v - SumUnits(xs)
    IN  (IF d < 0 THEN 0 - d ELSE d) * (Pow2(Prec) - n) <= n * SumMagnitudes(xs)

\* What class_stats(c) reports, but for where avg_gpa lies: the two counts,
\* the per-student rows, min_gpa and max_gpa as the least and the greatest
\* per-student mean over the students with a term, avg_gpa as their mean up
\* to rounding, and all three None exactly when no student of c has a term.
StatsAgree(c, r) ==
    LET inClass == {s \in db.students : s.class_name = c}
        termsOf(s) == {t \in db.terms : t.student_id = s.id}
        withTerms == {s \in inClass : termsOf(s) # {}}
        o == r.overall
        have == SelectSeq(r.rows, LAMBDA row : row.term_count > 0)
        means == [i \in 1..Len(have) |-> have[i].avg_gpa[1]]
    IN  /\ o.count_students = Cardinality(inClass)
        /\ o.count_with_terms = Cardinality(withTerms)
        /\ {row.id : row \in RowSet(r.rows)} = {s.id : s \in inClass}
        /\ Len(r.rows) = Cardinality(inClass)
        /\ \A row \in RowSet(r.rows) : \A s \in inClass :
                s.id = row.id
                => /\ row.term_count = Cardinality(termsOf(s))
                   /\ (row.avg_gpa = None) <=> (termsOf(s) = {})
                   /\ termsOf(s) # {} =>
                        NearMean(row.avg_gpa[1],
                                 [i \in 1..Cardinality(termsOf(s)) |->
                                    OrderById(termsOf(s))[i].gpa])
        /\ Len(means) = Cardinality(withTerms)
        /\ (o.avg_gpa = None) <=> (withTerms = {})
        /\ (o.min_gpa = None) <=> (withTerms = {})
        /\ (o.max_gpa = None) <=> (withTerms = {})
        /\ withTerms # {} =>
            /\ \E i \in 1..Len(means) : means[i] = o.min_gpa[1]
            /\ \E i \in 1..Len(means) : means[i] = o.max_gpa[1]
            /\ \A i \in 1..Len(means) :
                    ~FLt(means[i], o.min_gpa[1]) /\ ~FGt(means[i], o.max_gpa[1])
            /\ ~FGt(o.min_gpa[1], o.max_gpa[1])
            /\ NearMean(o.avg_gpa[1], means)

\* C10 as amended: class_stats(c) reports count_students, count_with_terms,
\* min_gpa and max_gpa as claimed, with min_gpa <= max_gpa; avg_gpa is the
\* floating-point quotient sum/len of the per-student means, the mean only up
\* to rounding; the three aggregates are None exactly when
\* count_with_terms = 0.
C10_ClassStats ==
    \A c \in ClassInputs : \A r \in class_stats(db, c) : StatsAgree(c, r)

\* C10 as claimed: the same, and so min_gpa <= avg_gpa <= max_gpa.
C10_AvgBetweenMinAndMax ==
    \A c \in ClassInputs : \A r \in class_stats(db, c) :
        /\ StatsAgree(c, r)
        /\ r.overall.avg_gpa # None =>
            /\ ~FLt(r.overall.avg_gpa[1], r.overall.min_gpa[1])
            /\ ~FGt(r.overall.avg_gpa[1], r.overall.max_gpa[1])

\* class_stats has reported a class of three students, two of them with
\* terms, of means 3.1 and 4.0.
C10_Witness ==
    /\ returned # None
    /\ returned[1].op = "class_stats"
    /\ returned[1].overall.count_students = 3
    /\ returned[1].overall.count_with_terms = 2
    /\ returned[1].overall.min_gpa = Some(ParseFloat(<<"3", ".", "1">>))
    /\ returned[1].overall.max_gpa = Some(ParseFloat(<<"4", ".", "0">>))

\* ------------------------------------------------------------ the window

\* The student list shows the selected class filtered by the search text.
StudentTreeRows_shown ==
    LET class_name == Strip(selected_class)
        q == Strip(search_text)
    IN  \E rows \in (IF q # << >>
                     THEN search_students_by_class_like(db, class_name, q)
                     ELSE list_students_by_class(db, class_name)) :
            student_tree = StudentTreeRows(rows)

\* text is the decimal writing of a real number g with 0.0 <= g <= 4.0
GpaInRange(text) ==
    LET g == ParseFloat(Strip(text))
    IN  g.k = "fin" /\ 0 <= g.v /\ g.v <= 4 * One

\* C4: "Add Term" calls add_term_grade only if the GPA entry parses to a real
\* number g with 0.0 <= g <= 4.0; for every other entry it calls nothing and
\* leaves the store as it was, so every stored GPA is within [0.0, 4.0].
C4_GpaValidatedBeforeStore ==
    /\ \A form \in FormTermInputs :
        \A a \in _add_term(Arrived, form[1], form[2]) :
            GpaInRange(form[2]) \/ (a.last_call = NoCall /\ a.db = db)
    /\ \A t \in db.terms : t.gpa.k = "fin" /\ 0 <= t.gpa.v /\ t.gpa.v <= 4 * One

\* C5: after a class is selected the student list shows that class filtered
\* by the search text, no student is selected, and "Add Term" and "Delete
\* Term" are refused with "Select a student first".
C5_SelectClassClearsSelection ==
    event = "<<ComboboxSelected>>" =>
        /\ StudentTreeRows_shown
        /\ selected_student_row_id = None
        /\ \A form \in FormTermInputs :
            \A a \in _add_term(Arrived, form[1], form[2]) : a.dialog = AddTermSelectFirst
        /\ \A yes \in BOOLEAN :
            \A a \in _delete_selected_term(Arrived, yes) : a.dialog = DeleteTermSelectFirst

\* C6: after a keystroke in the search box the selected student, when there
\* is one, is a row of the displayed student list, and when there is none
\* the detail panel is empty.
C6_SearchKeepsSelectionInList ==
    event = "<KeyRelease>" =>
        /\ StudentTreeRows_shown
        /\ selected_student_row_id # None =>
            \E i \in 1..Len(student_tree) : student_tree[i].iid = selected_student_row_id[1]
        /\ selected_student_row_id = None =>
            profile = None /\ term_tree = << >> /\ chart = EmptyChart

\* The surviving term rows of a student in the order they were created.
Created(student_row_id) ==
    LET mine == SelectSeq(term_log, LAMBDA e : e.student_id = student_row_id)
    IN  [i \in 1..Len(mine) |-> <<mine[i].term_name, mine[i].gpa>>]

\* C8: after any add_term_grade and delete_term calls list_terms_for_student
\* gives a student's surviving terms in the order they were created, and the
\* chart drawn for the student has its x-axis labels and its series in that
\* order.
C8_TermsInCreationOrder ==
    \A student_row_id \in RowIdInputs :
        LET terms == Created(student_row_id)
            drawn == _plot_student(App, student_row_id).chart
        IN  /\ list_terms_for_student(db, student_row_id) = terms
            /\ drawn.x_labels = [i \in 1..Len(terms) |-> terms[i][1]]
            /\ drawn.y_vals = [i \in 1..Len(terms) |-> terms[i][2]]

\* A term was deleted and its name added again, and the student's two terms
\* are now in an order that is neither the alphabetical one nor that of the
\* GPAs.
C8_Witness ==
    LET terms == list_terms_for_student(db, 1)
    IN  /\ last_call = [op |-> "add_term_grade", exc |-> "none"]
        /\ db.seq_terms = 3
        /\ Len(terms) = 2
        /\ TextLess(terms[2][1], terms[1][1])
        /\ FLt(terms[2][2], terms[1][2])

\* The class names that list_classes(d) returns.
ClassesListed(d) == {list_classes(d)[i] : i \in 1..Len(list_classes(d))}

\* C11: a class whose last student was deleted is no longer returned by
\* list_classes() and no longer offered by the class selector: after every
\* completed user action the selector's values are the distinct class names
\* of the stored students.
C11_SelectorOffersStoredClasses ==
    /\ ClassesListed(db) = {s.class_name : s \in db.students}
    /\ class_combo = list_classes(db)

\* C12: the selected student is None or the row id of a stored student, so
\* "Add Term" and "Delete Term" never call the store with the row id of a
\* deleted student, and the only constraint failure "Add Term" can meet is
\* the uniqueness of (student, term name).
C12_SelectedStudentExists ==
    /\ selected_student_row_id # None =>
        get_student(db, selected_student_row_id[1]) # None
    /\ \A form \in FormTermInputs :
        \A a \in _add_term(Arrived, form[1], form[2]) :
            a.last_call.op = "add_term_grade" =>
                /\ OwnerExists(db, selected_student_row_id[1])
                /\ a.last_call.exc \in {"none", UniqueTerm}
    /\ \A yes \in BOOLEAN :
        \A a \in _delete_selected_term(Arrived, yes) :
            a.last_call.op = "delete_term" =>
                OwnerExists(db, selected_student_row_id[1])

====
